---- MODULE Spec2Model ----
(***************************************************************************)
(* Model of the research orchestration pipeline of                         *)
(* claudeagenttry2/research_orchestrator.py: query expansion, the fan-out  *)
(* of research subagents under asyncio.gather, persistence of the          *)
(* artifacts and report synthesis.                                         *)
(*                                                                         *)
(* Text is modelled at the granularity the code inspects it.  A generator  *)
(* response is a sequence of tokens (the code fence of three backquotes,  *)
(* the word json, a blank, prose, one JSON value); a query string is a     *)
(* sequence of words, the                                                  *)
(* empty string being <<>>; a page text or snippet is a record giving the  *)
(* text it was cut from, the number of characters kept and the number of   *)
(* dots appended.                                                          *)
(***************************************************************************)
EXTENDS Integers, Sequences, FiniteSets, TLC

(***************************************************************************)
(* Bounds                                                                  *)
(***************************************************************************)
\* most organic hits the search provider returns for one request
MaxHits == 3
\* self.num_results, the constructor argument of ResearchOrchestrator
num_results == 2
\* number of characters of the snippet of a hit
SnippetLen == 7

\* characters of page content kept in the content_preview of an article
PreviewChars == 500

Min(a, b) == IF a <= b THEN a ELSE b

(***************************************************************************)
(* Strings                                                                 *)
(***************************************************************************)
\* Python None
None == [of |-> <<"None", 0>>, len |-> 0, dots |-> 0]
\* a text of n characters taken from the source text src, a pair such as
\* <<"page", 0>> or <<"snippet", rank>>
Text(src, n) == [of |-> src, len |-> n, dots |-> 0]
\* len(s)
StrLen(s) == s.len + s.dots
\* s[:n]
Slice(s, n) ==
    IF n <= s.len THEN [of |-> s.of, len |-> n, dots |-> 0]
    ELSE [of |-> s.of, len |-> s.len, dots |-> Min(s.dots, n - s.len)]
\* s + "..."
AddEllipsis(s) == [of |-> s.of, len |-> s.len, dots |-> s.dots + 3]

(***************************************************************************)
(* Generator responses and their parsing (_refine_queries)                 *)
(***************************************************************************)
query_types == <<"primary", "orthogonal_1", "orthogonal_2">>
QueryTypes == {"primary", "orthogonal_1", "orthogonal_2"}
QueryKeys == QueryTypes \cup {"original"}

FENCE == [t |-> "fence"]
JSONWORD == [t |-> "json"]
WS == [t |-> " "]
PROSE == [t |-> "prose"]
Value(v) == [t |-> "value", v |-> v]

\* JSON objects: any subset of the four query keys, each with a string that
\* is empty (0) or not (1); original, when present, echoes the user query
JsonObjects ==
    {f \in UNION {[S -> {0, 1}] : S \in SUBSET QueryKeys} :
        "original" \in DOMAIN f => f["original"] = 1}
ObjectOf(f) ==
    [kind |-> "object",
     fields |-> [k \in DOMAIN f |-> IF f[k] = 0 THEN << >> ELSE <<"refined", k>>]]
JsonValues ==
    {ObjectOf(f) : f \in JsonObjects}
        \cup {[kind |-> "array"], [kind |-> "scalar"]}

\* what the generator can say: a JSON value or prose, bare, padded with
\* blanks, inside a json code fence, inside a bare code fence, or after prose
Bodies == {Value(v) : v \in JsonValues} \cup {PROSE}
GenOutputs ==
    {<< >>}
        \cup {<<b>> : b \in Bodies}
        \cup {<<WS, b, WS>> : b \in Bodies}
        \cup {<<FENCE, JSONWORD, WS, b, WS, FENCE>> : b \in Bodies}
        \cup {<<FENCE, WS, b, WS, FENCE, WS>> : b \in Bodies}
        \cup {<<PROSE, b>> : b \in Bodies}

RECURSIVE LStrip(_)
LStrip(s) == IF s # << >> /\ Head(s) = WS THEN LStrip(Tail(s)) ELSE s
RECURSIVE RStrip(_)
RStrip(s) ==
    IF s # << >> /\ s[Len(s)] = WS THEN RStrip(SubSeq(s, 1, Len(s) - 1)) ELSE s
\* str.strip()
Strip(s) == RStrip(LStrip(s))

\* str.startswith(p)
StartsWith(s, p) == Len(s) >= Len(p) /\ SubSeq(s, 1, Len(p)) = p

\* index of the first occurrence of sep in s, 0 when there is none
RECURSIVE FindFrom(_, _, _)
FindFrom(s, sep, i) ==
    IF i + Len(sep) - 1 > Len(s) THEN 0
    ELSE IF SubSeq(s, i, i + Len(sep) - 1) = sep THEN i
    ELSE FindFrom(s, sep, i + 1)

\* str.split(sep): the pieces between the occurrences of sep
RECURSIVE Split(_, _)
Split(s, sep) ==
    LET i == FindFrom(s, sep, 1) IN
    IF i = 0 THEN <<s>>
    ELSE <<SubSeq(s, 1, i - 1)>> \o Split(SubSeq(s, i + Len(sep), Len(s)), sep)

\* lines 207-211: strip the response and take it out of a code fence
CleanResponse(response_text) ==
    LET t == Strip(response_text) IN
    IF StartsWith(t, <<FENCE, JSONWORD>>)
    THEN Strip(Split(Split(t, <<FENCE, JSONWORD>>)[2], <<FENCE>>)[1])
    ELSE IF StartsWith(t, <<FENCE>>)
    THEN Strip(Split(Split(t, <<FENCE>>)[2], <<FENCE>>)[1])
    ELSE t

\* json.loads: one JSON value, blanks around it allowed
JsonLoads(s) ==
    LET t == Strip(s) IN
    IF Len(t) = 1 /\ t[1].t = "value"
    THEN [ok |-> TRUE, value |-> t[1].v]
    ELSE [ok |-> FALSE]

\* a fallback that gives both orthogonal queries the same angle
FallbackQueriesOneAngle(user_query) ==
    [original |-> user_query,
     primary |-> user_query,
     orthogonal_1 |-> user_query \o <<"latest research">>,
     orthogonal_2 |-> user_query \o <<"latest research">>,
     reasoning |-> [primary |-> "Using original query",
                    orthogonal_1 |-> "Latest research angle",
                    orthogonal_2 |-> "Latest research angle"]]

\* lines 223-233: the fallback QuerySet
FallbackQueries(user_query) ==
    [original |-> user_query,
     primary |-> user_query,
     orthogonal_1 |-> user_query \o <<"latest research">>,
     orthogonal_2 |-> user_query \o <<"expert analysis">>,
     reasoning |-> [primary |-> "Using original query",
                    orthogonal_1 |-> "Latest research angle",
                    orthogonal_2 |-> "Expert analysis angle"]]

\* lines 215-217: the three subscripts refined[key] of the log lines
SubscriptFault(refined) ==
    IF refined.kind # "object" THEN "TypeError: indices must be integers"
    ELSE IF \E k \in QueryTypes : k \notin DOMAIN refined.fields THEN "KeyError"
    ELSE "none"

\* lines 204-233: what _refine_queries does with the text of the generator
\* (only json.JSONDecodeError is caught)
RefineGivenText(user_query, response_text) ==
    LET parsed == JsonLoads(CleanResponse(response_text)) IN
    IF ~parsed.ok
    THEN [raised |-> FALSE, value |-> FallbackQueries(user_query)]
    ELSE IF SubscriptFault(parsed.value) # "none"
    THEN [raised |-> TRUE, exc |-> SubscriptFault(parsed.value)]
    ELSE [raised |-> FALSE, value |-> parsed.value.fields]

(***************************************************************************)
(* Search and fetch (serper_search, _fetch_url_content)                    *)
(***************************************************************************)
\* organic hits as the provider sends them: a hit with a link and a title,
\* a hit whose link is missing or empty, a hit whose title is JSON null
Hit(rank, link, title) ==
    [link |-> link, title |-> title,
     snippet |-> Text(<<"snippet", rank>>, SnippetLen)]
Hits(rank) ==
    {Hit(rank, "http://page", "Title"), Hit(rank, "", "Title"),
     Hit(rank, "http://page", "null")}
HitLists ==
    UNION {{h \in [1..n -> UNION {Hits(r) : r \in 1..n}] :
               \A r \in 1..n : h[r] \in Hits(r)} : n \in 0..MaxHits}
\* what requests.post / raise_for_status / response.json() can do
HttpOutcomes ==
    {[kind |-> "fault", msg |-> m] : m \in {"Read timed out"}}
        \cup {[kind |-> "json", organic |-> h] : h \in HitLists}

\* lines 77-98
serper_search(query, http) ==
    IF http.kind = "json"
    THEN [query |-> query,
          num_results |-> Len(http.organic),
          results |-> http.organic,
          search_metadata |-> "searchParameters"]
    ELSE [query |-> query, error |-> http.msg, results |-> << >>]

\* texts a page fetch can collect
PageLens == {0, PreviewChars + 1}
FetchOutcomes ==
    {[kind |-> "fault"]}
        \cup {[kind |-> "text", content |-> Text(<<"page", 0>>, n)] : n \in PageLens}

\* truth value of an Optional[str]
Truthy(s) == s # None /\ StrLen(s) > 0

\* lines 355-379: every Exception is caught, empty text becomes None
_fetch_url_content(outcome) ==
    IF outcome.kind = "text" /\ Truthy(outcome.content)
    THEN outcome.content
    ELSE None

(***************************************************************************)
(* One research subagent (_run_research_subagent)                          *)
(***************************************************************************)
\* a failure report that names an error only when the search itself failed
SearchFailedReportQuietOnEmpty(query, query_type, search_results) ==
    IF "error" \in DOMAIN search_results
    THEN [query_type |-> query_type, query |-> query,
          error |-> search_results.error, articles |-> << >>]
    ELSE [query_type |-> query_type, query |-> query, articles |-> << >>]

\* lines 303-308
SearchFailedReport(query, query_type, search_results) ==
    [query_type |-> query_type,
     query |-> query,
     error |-> IF "error" \in DOMAIN search_results
               THEN search_results.error ELSE "No results found",
     articles |-> << >>]

\* a search that only looks for the error key
SearchFailedErrorOnly(search_results) == "error" \in DOMAIN search_results

\* line 302
SearchFailed(search_results) ==
    "error" \in DOMAIN search_results \/ search_results.results = << >>

\* a scrape list that takes every hit the provider returned
ResultsToScrapeAll(search_results) == search_results.results

\* line 312
ResultsToScrape(search_results) ==
    SubSeq(search_results.results, 1,
           Min(Len(search_results.results), num_results))

\* lines 316-322: the next hit at or after position idx that has a link,
\* Len + 1 when the loop runs out
RECURSIVE NextLinked(_, _)
NextLinked(hits, idx) ==
    IF idx > Len(hits) THEN idx
    ELSE IF hits[idx].link = "" THEN NextLinked(hits, idx + 1)
    ELSE idx

\* lines 327-335
ArticleData(idx, result, content) ==
    [position |-> idx,
     title |-> result.title,
     url |-> result.link,
     snippet |-> result.snippet,
     content_preview |-> IF Truthy(content)
                         THEN AddEllipsis(Slice(content, PreviewChars))
                         ELSE result.snippet,
     content_length |-> IF Truthy(content) THEN StrLen(content) ELSE 0,
     scraped |-> content # None]

\* lines 342-348
BranchReport(query, query_type, search_metadata, articles) ==
    [query_type |-> query_type,
     query |-> query,
     num_articles |-> Len(articles),
     articles |-> articles,
     search_metadata |-> search_metadata]

Returned(v) == [kind |-> "returned", value |-> v]
Raised(e) == [kind |-> "raised", exc |-> e]
Pending == [kind |-> "pending"]

\* a subagent coroutine that was not created, and one that was.  Of
\* search_results the coroutine keeps what it still reads after line 312:
\* results_to_scrape and the search metadata.  searched records what the
\* search of the coroutine answered and fetched what its fetches returned
NoBranch ==
    [pc |-> "absent", query |-> << >>, results_to_scrape |-> << >>,
     search_metadata |-> "", idx |-> 0, articles |-> << >>, fetched |-> << >>,
     searched |-> "no", outcome |-> Pending]
NewBranch(query) == [NoBranch EXCEPT !.pc = "ready", !.query = query]

\* the coroutine ends: its frame is gone, the task keeps the report or fault
ReturnReport(b, branch_report) ==
    [NoBranch EXCEPT !.pc = "done", !.query = b.query,
                     !.articles = b.articles, !.fetched = b.fetched,
                     !.searched = b.searched,
                     !.outcome = Returned(branch_report)]
RaiseFault(b, exc) ==
    [NoBranch EXCEPT !.pc = "raised", !.searched = b.searched,
                     !.outcome = Raised(exc)]

\* a scrape loop that fetches the hit at idx whether it has a link or not
ScrapeFromNoSkip(b, query_type, idx) ==
    LET hits == b.results_to_scrape
    IN  IF idx <= Len(hits)
        THEN [b EXCEPT !.pc = "fetching", !.idx = idx]
        ELSE ReturnReport(b, BranchReport(b.query, query_type,
                                          b.search_metadata, b.articles))

\* the coroutine from position idx of the scrape loop on: it suspends in
\* the fetch of the next hit with a link, or leaves the loop and returns
ScrapeFrom(b, query_type, idx) ==
    LET hits == b.results_to_scrape
        k == NextLinked(hits, idx)
    IN  IF k <= Len(hits)
        THEN [b EXCEPT !.pc = "fetching", !.idx = k]
        ELSE ReturnReport(b, BranchReport(b.query, query_type,
                                          b.search_metadata, b.articles))

\* a subagent that searches again when its search failed or found nothing
AfterSearchRetrying(b, query_type, http) ==
    LET sr == serper_search(b.query, http)
        b1 == [b EXCEPT !.searched = IF http.kind = "fault" THEN "fault"
                                     ELSE IF http.organic = << >> THEN "empty"
                                     ELSE "hits"]
    IN  IF SearchFailed(sr)
        THEN b1
        ELSE ScrapeFrom([b1 EXCEPT !.results_to_scrape = ResultsToScrape(sr),
                                   !.search_metadata = sr.search_metadata],
                        query_type, 1)

\* lines 297-322: the coroutine from its start to its first suspension
AfterSearch(b, query_type, http) ==
    LET sr == serper_search(b.query, http)
        b1 == [b EXCEPT !.searched = IF http.kind = "fault" THEN "fault"
                                     ELSE IF http.organic = << >> THEN "empty"
                                     ELSE "hits"]
    IN  IF SearchFailed(sr)
        THEN ReturnReport(b1, SearchFailedReport(b.query, query_type, sr))
        ELSE ScrapeFrom([b1 EXCEPT !.results_to_scrape = ResultsToScrape(sr),
                                   !.search_metadata = sr.search_metadata],
                        query_type, 1)

\* a scrape loop that gives up on the first fetch that yields nothing
AfterFetchFatal(b, query_type, content) ==
    LET hit == b.results_to_scrape[b.idx]
        b1 == [b EXCEPT !.articles = Append(@, ArticleData(b.idx, hit, content)),
                        !.fetched = Append(@, content)]
    IN  IF hit.title = "null"
        THEN RaiseFault(b1, "TypeError: NoneType object is not subscriptable")
        ELSE IF content = None
        THEN ReturnReport(b1, BranchReport(b.query, query_type,
                                           b.search_metadata, b1.articles))
        ELSE ScrapeFrom(b1, query_type, b.idx + 1)

\* lines 325-338: the fetch of hit idx returns; the article is appended and
\* the progress line slices the title, which faults on a null title
AfterFetch(b, query_type, content) ==
    LET hit == b.results_to_scrape[b.idx]
        b1 == [b EXCEPT !.articles = Append(@, ArticleData(b.idx, hit, content)),
                        !.fetched = Append(@, content)]
    IN  IF hit.title = "null"
        THEN RaiseFault(b1, "TypeError: NoneType object is not subscriptable")
        ELSE ScrapeFrom(b1, query_type, b.idx + 1)

(***************************************************************************)
(* Fan-out and report preparation                                          *)
(***************************************************************************)
\* dict.get(key, "")
GetQuery(refined_queries, key) ==
    IF key \in DOMAIN refined_queries THEN refined_queries[key] ELSE << >>

\* lines 262-269: one coroutine per query type whose query is not empty
RECURSIVE TasksFrom(_, _)
TasksFrom(refined_queries, i) ==
    IF i > Len(query_types) THEN << >>
    ELSE (IF GetQuery(refined_queries, query_types[i]) # << >>
          THEN <<query_types[i]>> ELSE << >>)
             \o TasksFrom(refined_queries, i + 1)

\* lines 276-286: result i of gather is labelled with query_types[i]
ProcessResult(i, result) ==
    IF result.kind = "raised"
    THEN [query_type |-> query_types[i], error |-> result.exc, articles |-> << >>]
    ELSE result.value
ProcessResults(gathered) ==
    [i \in 1..Len(gathered) |-> ProcessResult(i, gathered[i])]

\* articles of a report handed to the report generator
ReportTopN == 5
\* characters of a content preview handed to the report generator
SummaryChars == 300

\* a summary that takes every article of the report
SummaryOfAllArticles(result) ==
    [query_type |-> result.query_type,
     query |-> IF "query" \in DOMAIN result THEN result.query ELSE None,
     num_articles |-> IF "num_articles" \in DOMAIN result
                      THEN result.num_articles ELSE 0,
     articles |-> [j \in 1..Len(result.articles) |->
                     [title |-> result.articles[j].title,
                      url |-> result.articles[j].url,
                      snippet |-> result.articles[j].snippet,
                      content_preview |->
                          Slice(result.articles[j].content_preview, SummaryChars)]]]

\* lines 394-409
Summary(result) ==
    [query_type |-> result.query_type,
     query |-> IF "query" \in DOMAIN result THEN result.query ELSE None,
     num_articles |-> IF "num_articles" \in DOMAIN result
                      THEN result.num_articles ELSE 0,
     articles |-> [j \in 1..Min(Len(result.articles), ReportTopN) |->
                     [title |-> result.articles[j].title,
                      url |-> result.articles[j].url,
                      snippet |-> result.articles[j].snippet,
                      content_preview |->
                          Slice(result.articles[j].content_preview, SummaryChars)]]]
ResearchSummary(original_query, refined_queries, research_results) ==
    [original_query |-> original_query,
     refined_queries |-> refined_queries,
     results_summary |-> [i \in 1..Len(research_results) |->
                             Summary(research_results[i])]]

\* what a generation call can do: fail, or answer with a text
ReportOutcomes ==
    {[kind |-> "fault"],
     [kind |-> "text", text |-> Text(<<"# Research Report", 0>>, PreviewChars)]}

(***************************************************************************)
(* State                                                                   *)
(***************************************************************************)
UserQueries == {<<"quantum computing">>}

VARIABLES
    pc,              \* position of research_with_orchestrator
    user_query,      \* its argument
    session_dir,     \* self.session_dir
    refined,         \* refined_queries
    tasks,           \* the coroutines handed to gather, by query type
    br,              \* the subagent coroutines
    results,         \* research_results
    saved,           \* number of results already written by the loop of line 132
    summary,         \* research_summary given to the report generator
    report,          \* final_report
    files,           \* the writes into the session directory, in order
    steps,           \* the observable steps of the run, in order
    failure,         \* the fault that ended the run, if any
    returned         \* the value returned by the run

vars == <<pc, user_query, session_dir, refined, tasks, br, results, saved,
          summary, report, files, steps, failure, returned>>

NoValue == [set |-> FALSE]

\* The parts of the program that are also studied on their own have their
\* own state: calls of create_session_directory under a clock, one call of
\* _run_research_subagent, one call of _refine_queries, the summary loop of
\* _generate_report, and a run under scripted responses.  Each
\* specification moves its own variables and leaves the others unset
VARIABLES
    now,             \* the clock read by datetime.now(), in ticks
    disk,            \* the directories under research_sessions
    self_session_dir,\* self.session_dir of every orchestrator instance
    sessions,        \* the directory each run was given
    sub,             \* one subagent coroutine
    sub_type,        \* its query_type argument
    sub_http,        \* what the search provider answered it
    sub_events,      \* its fetches, started and returned, in order
    refine_query,    \* the user_query argument of _refine_queries
    response_text,   \* the text the query generator answered
    refine_out,      \* what _refine_queries made of it
    sum_result,      \* one entry of research_results
    sum_summary,     \* its entry in research_summary
    script,          \* the responses of a scripted run
    searches,        \* the serper_search call of every subagent of a fan-out
    messages,        \* st.session_state.messages
    status_logs,     \* st.session_state.status_logs
    current_research,\* st.session_state.current_research
    research_complete,\* st.session_state.research_complete
    ui_pc,           \* position of the script run of the page
    ui_result        \* what run_research returned to main

sessionvars == <<now, disk, self_session_dir, sessions>>
subvars == <<sub, sub_type, sub_http, sub_events>>
refinevars == <<refine_query, response_text, refine_out>>
sumvars == <<sum_result, sum_summary>>
uivars == <<messages, status_logs, current_research, research_complete,
            ui_pc, ui_result>>
allvars == <<vars, sessionvars, subvars, refinevars, sumvars, script, searches,
             uivars>>

SessionsUnset ==
    now = NoValue /\ disk = NoValue /\ self_session_dir = NoValue
        /\ sessions = NoValue
SubagentUnset ==
    sub = NoValue /\ sub_type = NoValue /\ sub_http = NoValue
        /\ sub_events = NoValue
RefineUnset ==
    refine_query = NoValue /\ response_text = NoValue /\ refine_out = NoValue
SummaryUnset == sum_result = NoValue /\ sum_summary = NoValue
ScriptUnset == script = NoValue
SearchUnset == searches = NoValue
UiUnset ==
    /\ messages = NoValue /\ status_logs = NoValue
    /\ current_research = NoValue /\ research_complete = NoValue
    /\ ui_pc = NoValue /\ ui_result = NoValue
RunUnset ==
    /\ pc = "unset" /\ user_query = NoValue /\ session_dir = NoValue
    /\ refined = NoValue /\ tasks = NoValue /\ br = NoValue
    /\ results = NoValue /\ saved = NoValue /\ summary = NoValue
    /\ report = NoValue /\ files = NoValue /\ steps = NoValue
    /\ failure = NoValue /\ returned = NoValue

\* the state of a run when research_with_orchestrator is called
RunInit ==
    /\ pc = "create_session"
    /\ user_query \in UserQueries
    /\ session_dir = NoValue
    /\ refined = NoValue
    /\ tasks = << >>
    /\ br = [t \in QueryTypes |-> NoBranch]
    /\ results = << >>
    /\ saved = 0
    /\ summary = NoValue
    /\ report = NoValue
    /\ files = << >>
    /\ steps = << >>
    /\ failure = "none"
    /\ returned = NoValue

Init ==
    /\ RunInit
    /\ SessionsUnset /\ SubagentUnset /\ RefineUnset /\ SummaryUnset
    /\ ScriptUnset
    /\ SearchUnset /\ UiUnset

\* lines 39-46 and 53-55
SessionPath == [path |-> "research_sessions/timestamp"]
WriteFile(filename, data) ==
    Append(files, [dir |-> session_dir, name |-> filename, data |-> data])

(***************************************************************************)
(* Actions                                                                 *)
(***************************************************************************)
\* line 113
CreateSession ==
    /\ pc = "create_session"
    /\ session_dir' = SessionPath
    /\ steps' = Append(steps, "session_created")
    /\ pc' = "refine"
    /\ UNCHANGED <<user_query, refined, tasks, br, results, saved, summary,
                   report, files, failure, returned>>

\* line 119: the generation call fails, or answers with a text that
\* _refine_queries parses
RefineQueries ==
    /\ pc = "refine"
    /\ \E gen \in {[kind |-> "fault"]}
                    \cup {[kind |-> "text", text |-> t] : t \in GenOutputs} :
         LET r == IF gen.kind = "fault"
                  THEN [raised |-> TRUE, exc |-> "GenerationError"]
                  ELSE RefineGivenText(user_query, gen.text)
         IN  IF r.raised
             THEN /\ pc' = "failed"
                  /\ failure' = r.exc
                  /\ UNCHANGED <<refined, steps>>
             ELSE /\ pc' = "save_queries"
                  /\ refined' = r.value
                  /\ steps' = Append(steps, "queries_expanded")
                  /\ UNCHANGED failure
    /\ UNCHANGED <<user_query, session_dir, tasks, br, results, saved, summary,
                   report, files, returned>>

\* an orchestrator that goes on to the fan-out without writing queries.json
SaveQueriesSkipped ==
    /\ pc = "save_queries"
    /\ pc' = "launch"
    /\ UNCHANGED <<user_query, session_dir, refined, tasks, br, results, saved,
                   summary, report, files, steps, failure, returned>>

\* line 122
SaveQueries ==
    /\ pc = "save_queries"
    /\ files' = WriteFile(<<"queries.json">>, refined)
    /\ steps' = Append(steps, "queries_saved")
    /\ pc' = "launch"
    /\ UNCHANGED <<user_query, session_dir, refined, tasks, br, results, saved,
                   summary, report, failure, returned>>

\* lines 128, 262-273: the coroutines are created and handed to gather
Launch ==
    /\ pc = "launch"
    /\ tasks' = TasksFrom(refined, 1)
    /\ br' = [t \in QueryTypes |->
                IF GetQuery(refined, t) # << >>
                THEN NewBranch(refined[t]) ELSE NoBranch]
    /\ steps' = Append(steps, "branches_launched")
    /\ pc' = "gather"
    /\ UNCHANGED <<user_query, session_dir, refined, results, saved, summary,
                   report, files, failure, returned>>

\* the event loop starts the tasks in the order gather created them
StartedBefore(i) == \A j \in 1..(i - 1) : br[tasks[j]].pc # "ready"

\* a subagent runs from its start to its first suspension; the search is a
\* blocking call inside this step
StartBranch(i) ==
    /\ pc = "gather"
    /\ br[tasks[i]].pc = "ready"
    /\ StartedBefore(i)
    /\ \E http \in HttpOutcomes :
         br' = [br EXCEPT ![tasks[i]] = AfterSearch(@, tasks[i], http)]
    /\ UNCHANGED <<pc, user_query, session_dir, refined, tasks, results, saved,
                   summary, report, files, steps, failure, returned>>

\* a fan-out in which a task that raises cancels its unfinished siblings
FetchReturnCancelling(i) ==
    /\ pc = "gather"
    /\ br[tasks[i]].pc = "fetching"
    /\ \E f \in FetchOutcomes :
         LET b1 == AfterFetch(br[tasks[i]], tasks[i], _fetch_url_content(f)) IN
         br' = [t \in QueryTypes |->
                  IF t = tasks[i] THEN b1
                  ELSE IF b1.pc = "raised" /\ br[t].pc \in {"ready", "fetching"}
                  THEN RaiseFault(br[t], "CancelledError")
                  ELSE br[t]]
    /\ UNCHANGED <<pc, user_query, session_dir, refined, tasks, results, saved,
                   summary, report, files, steps, failure, returned>>

\* subagents that append to one article list shared by the coroutines in
\* the scrape loop
FetchReturnSharingArticles(i) ==
    /\ pc = "gather"
    /\ br[tasks[i]].pc = "fetching"
    /\ \E f \in FetchOutcomes :
         LET b == br[tasks[i]]
             content == _fetch_url_content(f)
             article == ArticleData(b.idx, b.results_to_scrape[b.idx], content)
         IN  br' = [t \in QueryTypes |->
                      IF t = tasks[i] THEN AfterFetch(b, t, content)
                      ELSE IF br[t].pc = "fetching"
                      THEN [br[t] EXCEPT !.articles = Append(@, article)]
                      ELSE br[t]]
    /\ UNCHANGED <<pc, user_query, session_dir, refined, tasks, results, saved,
                   summary, report, files, steps, failure, returned>>

\* a suspended fetch returns and the subagent runs to its next suspension
FetchReturn(i) ==
    /\ pc = "gather"
    /\ br[tasks[i]].pc = "fetching"
    /\ \E f \in FetchOutcomes :
         br' = [br EXCEPT ![tasks[i]] =
                    AfterFetch(@, tasks[i], _fetch_url_content(f))]
    /\ UNCHANGED <<pc, user_query, session_dir, refined, tasks, results, saved,
                   summary, report, files, steps, failure, returned>>

\* a join that resumes the orchestrator only over tasks that returned
AllReturned == \A i \in 1..Len(tasks) : br[tasks[i]].pc = "done"

\* line 273: gather with return_exceptions=True resumes the orchestrator
\* once every task has returned or raised
AllResolved == \A i \in 1..Len(tasks) : br[tasks[i]].pc \in {"done", "raised"}

\* a gather without return_exceptions: the first fault of a task is raised
\* into the orchestrator at once
JoinFirstException ==
    /\ pc = "gather"
    /\ IF \E i \in 1..Len(tasks) : br[tasks[i]].pc = "raised"
       THEN /\ pc' = "failed"
            /\ failure' = "TypeError: NoneType object is not subscriptable"
            /\ UNCHANGED <<results, steps>>
       ELSE /\ AllResolved
            /\ results' = ProcessResults([i \in 1..Len(tasks) |->
                                             br[tasks[i]].outcome])
            /\ steps' = Append(steps, "branches_resolved")
            /\ pc' = "save_results"
            /\ UNCHANGED failure
    /\ UNCHANGED <<user_query, session_dir, refined, tasks, br, saved, summary,
                   report, files, returned>>

Join ==
    /\ pc = "gather"
    /\ AllResolved
    /\ results' = ProcessResults([i \in 1..Len(tasks) |-> br[tasks[i]].outcome])
    /\ steps' = Append(steps, "branches_resolved")
    /\ pc' = "save_results"
    /\ UNCHANGED <<user_query, session_dir, refined, tasks, br, saved, summary,
                   report, files, failure, returned>>

\* lines 132-134, one turn of the loop
SaveResult ==
    /\ pc = "save_results"
    /\ saved < Len(results)
    /\ files' = WriteFile(<<"research_results", results[saved + 1].query_type>>,
                          results[saved + 1])
    /\ saved' = saved + 1
    /\ steps' = Append(steps, "result_saved")
    /\ UNCHANGED <<pc, user_query, session_dir, refined, tasks, br, results,
                   summary, report, failure, returned>>

\* a report step that leaves an error page in the session when generation fails
GenerateReportSavingOnFault ==
    /\ pc = "save_results"
    /\ saved = Len(results)
    /\ summary' = ResearchSummary(user_query, refined, results)
    /\ \E gen \in ReportOutcomes :
         IF gen.kind = "fault"
         THEN /\ pc' = "failed"
              /\ failure' = "ReportGenerationError"
              /\ files' = WriteFile(<<"final_report.md">>, NoValue)
              /\ UNCHANGED <<report, steps>>
         ELSE /\ pc' = "save_report"
              /\ report' = gen.text
              /\ steps' = Append(steps, "report_synthesized")
              /\ UNCHANGED <<failure, files>>
    /\ UNCHANGED <<user_query, session_dir, refined, tasks, br, results, saved,
                   returned>>

\* line 138: the summary is built and the generation call made
GenerateReport ==
    /\ pc = "save_results"
    /\ saved = Len(results)
    /\ summary' = ResearchSummary(user_query, refined, results)
    /\ \E gen \in ReportOutcomes :
         IF gen.kind = "fault"
         THEN /\ pc' = "failed"
              /\ failure' = "ReportGenerationError"
              /\ UNCHANGED <<report, steps>>
         ELSE /\ pc' = "save_report"
              /\ report' = gen.text
              /\ steps' = Append(steps, "report_synthesized")
              /\ UNCHANGED failure
    /\ UNCHANGED <<user_query, session_dir, refined, tasks, br, results, saved,
                   files, returned>>

\* lines 141-143
SaveReport ==
    /\ pc = "save_report"
    /\ files' = WriteFile(<<"final_report.md">>, report)
    /\ steps' = Append(steps, "report_saved")
    /\ pc' = "return"
    /\ UNCHANGED <<user_query, session_dir, refined, tasks, br, results, saved,
                   summary, report, failure, returned>>

\* lines 150-155
Return ==
    /\ pc = "return"
    /\ returned' = [session_dir |-> session_dir, queries |-> refined,
                    results |-> results, report |-> report]
    /\ steps' = Append(steps, "returned")
    /\ pc' = "done"
    /\ UNCHANGED <<user_query, session_dir, refined, tasks, br, results, saved,
                   summary, report, files, failure>>

\* a step of the run leaves the other parts alone
OthersUnchanged ==
    UNCHANGED <<sessionvars, subvars, refinevars, sumvars, script, searches, uivars>>

Next ==
    \/ CreateSession /\ OthersUnchanged
    \/ RefineQueries /\ OthersUnchanged
    \/ SaveQueries /\ OthersUnchanged
    \/ Launch /\ OthersUnchanged
    \/ \E i \in 1..Len(tasks) : StartBranch(i) /\ OthersUnchanged
    \/ \E i \in 1..Len(tasks) : FetchReturn(i) /\ OthersUnchanged
    \/ Join /\ OthersUnchanged
    \/ SaveResult /\ OthersUnchanged
    \/ GenerateReport /\ OthersUnchanged
    \/ SaveReport /\ OthersUnchanged
    \/ Return /\ OthersUnchanged

Spec == Init /\ [][Next]_allvars

\* every generation, search and fetch call eventually returns or raises, and
\* the event loop runs whatever is ready: a step that stays possible is taken
Fairness == WF_allvars(Next)
FairSpec == Spec /\ Fairness

(***************************************************************************)
(* Session directories: calls of create_session_directory under a clock    *)
(***************************************************************************)
MaxRuns == 2
MaxTicks == 3
\* the clock is finer than the second the directory name keeps
TicksPerSecond == 2
Runs == 1..MaxRuns
Instances == {"orchestrator_a", "orchestrator_b"}

\* line 41: strftime("%Y-%m-%d_%H-%M-%S") keeps the whole seconds
Timestamp(t) == t \div TicksPerSecond
\* line 42
SessionDirOf(timestamp) == [path |-> <<"research_sessions", timestamp>>]

SessionInit ==
    /\ now = 0
    /\ disk = {}
    /\ self_session_dir = [i \in Instances |-> NoValue]
    /\ sessions = [r \in Runs |-> NoValue]
    /\ RunUnset /\ SubagentUnset /\ RefineUnset /\ SummaryUnset /\ ScriptUnset
    /\ SearchUnset /\ UiUnset

\* time passes
Tick ==
    /\ now < MaxTicks
    /\ now' = now + 1
    /\ UNCHANGED <<disk, self_session_dir, sessions>>
    /\ UNCHANGED <<vars, subvars, refinevars, sumvars, script, searches, uivars>>

\* lines 39-46, called by run r on instance inst (line 113): mkdir with
\* exist_ok=True accepts a directory that is already there
create_session_directory(r, inst) ==
    /\ sessions[r] = NoValue
    /\ LET dir == SessionDirOf(Timestamp(now))
       IN  /\ disk' = disk \cup {dir}
           /\ self_session_dir' = [self_session_dir EXCEPT ![inst] = dir]
           /\ sessions' = [sessions EXCEPT ![r] =
                              [instance |-> inst, dir |-> dir, writes |-> << >>]]
    /\ UNCHANGED now
    /\ UNCHANGED <<vars, subvars, refinevars, sumvars, script, searches, uivars>>

\* the files a run writes through save_json, in order: queries.json after
\* the expansion (line 122), then the branch reports in one loop without
\* an await (lines 132-134)
SavedByRun ==
    <<<<"queries.json">>>> \o [i \in 1..Len(query_types) |->
                                <<"research_results", query_types[i]>>]

\* lines 48-58, called by run r for the next files it has to save: the
\* directory is read from self.session_dir of the instance at each call
save_json(r, filenames) ==
    /\ sessions[r] # NoValue
    /\ Len(sessions[r].writes) + Len(filenames) <= Len(SavedByRun)
    /\ SubSeq(SavedByRun, Len(sessions[r].writes) + 1,
              Len(sessions[r].writes) + Len(filenames)) = filenames
    /\ sessions' = [sessions EXCEPT ![r].writes =
                       @ \o [k \in 1..Len(filenames) |->
                               [name |-> filenames[k],
                                dir |-> self_session_dir[sessions[r].instance]]]]
    /\ UNCHANGED <<now, disk, self_session_dir>>
    /\ UNCHANGED <<vars, subvars, refinevars, sumvars, script, searches, uivars>>

\* lines 141-143: final_report.md is written into the directory the run
\* got from create_session_directory, kept in the local session_dir
write_final_report(r) ==
    /\ sessions[r] # NoValue
    /\ Len(sessions[r].writes) = Len(SavedByRun)
    /\ sessions' = [sessions EXCEPT ![r].writes =
                       Append(@, [name |-> <<"final_report.md">>,
                                  dir |-> sessions[r].dir])]
    /\ UNCHANGED <<now, disk, self_session_dir>>
    /\ UNCHANGED <<vars, subvars, refinevars, sumvars, script, searches, uivars>>

SessionNext ==
    \/ Tick
    \/ \E r \in Runs, inst \in Instances : create_session_directory(r, inst)
    \/ \E r \in Runs : save_json(r, SubSeq(SavedByRun, 1, 1))
    \/ \E r \in Runs : save_json(r, SubSeq(SavedByRun, 2, Len(SavedByRun)))
    \/ \E r \in Runs : write_final_report(r)

SessionSpec == SessionInit /\ [][SessionNext]_allvars

(***************************************************************************)
(* One subagent: a call of _run_research_subagent(query, query_type)       *)
(***************************************************************************)
\* texts a page fetch can collect, around the preview budget
SubPageLens == {0, 1, PreviewChars, PreviewChars + 1}
SubFetchOutcomes ==
    {[kind |-> "fault"]}
        \cup {[kind |-> "text", content |-> Text(<<"page", 0>>, n)] :
                 n \in SubPageLens}

FetchStarted(rank) == [ev |-> "fetch", rank |-> rank]
FetchEnded(rank) == [ev |-> "fetched", rank |-> rank]
\* line 325: the fetch the coroutine b is suspended in, if any
StartedBy(b) == IF b.pc = "fetching" THEN <<FetchStarted(b.idx)>> ELSE << >>

SubagentInit ==
    /\ sub_type \in QueryTypes
    /\ sub = NewBranch(<<"query">>)
    /\ sub_http = NoValue
    /\ sub_events = << >>
    /\ RunUnset /\ SessionsUnset /\ RefineUnset /\ SummaryUnset /\ ScriptUnset
    /\ SearchUnset /\ UiUnset

\* lines 297-325: the search answers and the coroutine runs to its first
\* fetch or to its return
SubagentSearch ==
    /\ sub.pc = "ready"
    /\ \E http \in HttpOutcomes :
         /\ sub' = AfterSearch(sub, sub_type, http)
         /\ sub_http' = http
    /\ sub_events' = sub_events \o StartedBy(sub')
    /\ UNCHANGED sub_type
    /\ UNCHANGED <<vars, sessionvars, refinevars, sumvars, script, searches, uivars>>

\* lines 325-340: the pending fetch answers and the coroutine runs to its
\* next fetch, to its return or to a fault
SubagentFetchReturn ==
    /\ sub.pc = "fetching"
    /\ \E f \in SubFetchOutcomes :
         sub' = AfterFetch(sub, sub_type, _fetch_url_content(f))
    /\ sub_events' = (sub_events \o <<FetchEnded(sub.idx)>>) \o StartedBy(sub')
    /\ UNCHANGED <<sub_type, sub_http>>
    /\ UNCHANGED <<vars, sessionvars, refinevars, sumvars, script, searches, uivars>>

SubagentNext == SubagentSearch \/ SubagentFetchReturn

SubagentSpec == SubagentInit /\ [][SubagentNext]_allvars

(***************************************************************************)
(* One query expansion: a call of _refine_queries(user_query)              *)
(***************************************************************************)
RefineUserQueries == {<<"quantum computing">>, <<"ai", "safety">>}

RefineInit ==
    /\ refine_query \in RefineUserQueries
    /\ response_text \in GenOutputs
    /\ refine_out = NoValue
    /\ RunUnset /\ SessionsUnset /\ SubagentUnset /\ SummaryUnset /\ ScriptUnset
    /\ SearchUnset /\ UiUnset

\* lines 204-233, after the generator answered response_text
Refine ==
    /\ refine_out = NoValue
    /\ refine_out' = RefineGivenText(refine_query, response_text)
    /\ UNCHANGED <<refine_query, response_text>>
    /\ UNCHANGED <<vars, sessionvars, subvars, sumvars, script, searches, uivars>>

RefineSpec == RefineInit /\ [][Refine]_allvars

(***************************************************************************)
(* One summary: the loop body of lines 394-409 on one research result      *)
(***************************************************************************)
\* articles of the largest report summarized, more than the loop takes
MaxArticles == 7
\* what the fetch of an article returned: nothing, or a page whose preview
\* falls short of, fills or exceeds the summary budget
SummaryContents ==
    {None} \cup {Text(<<"page", 0>>, n) :
                    n \in {1, SummaryChars - 3, SummaryChars - 2,
                           PreviewChars, PreviewChars + 1}}
\* the report of a subagent that scraped n hits, every fetch returning content
ReportOf(query_type, n, content) ==
    BranchReport(<<"query">>, query_type, "searchParameters",
                 [i \in 1..n |->
                     ArticleData(i, Hit(i, "http://page", "Title"), content)])
\* the entries research_results can hold: reports of a subagent, with and
\* without articles, and the report made of a raised fault
SummaryInputs ==
    {ReportOf(t, n, c) : t \in QueryTypes, n \in 0..MaxArticles,
                         c \in SummaryContents}
        \cup {SearchFailedReport(<<"query">>, t,
                                  serper_search(<<"query">>, http)) :
                 t \in QueryTypes,
                 http \in {h \in HttpOutcomes : h.kind = "fault"}}
        \cup {ProcessResult(i, Raised("TypeError")) : i \in 1..Len(query_types)}

SummaryInit ==
    /\ sum_result \in SummaryInputs
    /\ sum_summary = NoValue
    /\ RunUnset /\ SessionsUnset /\ SubagentUnset /\ RefineUnset /\ ScriptUnset
    /\ SearchUnset /\ UiUnset

\* lines 395-409, one turn of the loop
Summarize ==
    /\ sum_summary = NoValue
    /\ sum_summary' = Summary(sum_result)
    /\ UNCHANGED sum_result
    /\ UNCHANGED <<vars, sessionvars, subvars, refinevars, script, searches, uivars>>

SummarySpec == SummaryInit /\ [][Summarize]_allvars

(***************************************************************************)
(* A run under scripted responses: every call of the generator, of the     *)
(* search provider and of the fetcher answers what the script says         *)
(***************************************************************************)
ScriptTexts ==
    {<<PROSE>>,
     <<Value(ObjectOf([k \in QueryKeys |-> IF k = "primary" THEN 0 ELSE 1]))>>}
ScriptHitLists ==
    {<<Hit(1, "http://page", "Title")>>,
     <<Hit(1, "http://page", "Title"), Hit(2, "http://page", "Title")>>,
     <<Hit(1, "http://page", "null")>>}
ScriptHttp ==
    {h \in HttpOutcomes : h.kind = "fault" \/ h.organic \in ScriptHitLists}
ScriptFetches ==
    {f \in FetchOutcomes : f.kind = "fault" \/ Truthy(f.content)}
\* the answer to the expansion call, to the search of each query type, to
\* the fetches of each query type, and to the report call
Scripts ==
    [gen : ScriptTexts,
     http : [QueryTypes -> ScriptHttp],
     fetch : [QueryTypes -> ScriptFetches],
     report : ReportOutcomes]

ScriptInit ==
    /\ RunInit
    /\ script \in Scripts
    /\ SessionsUnset /\ SubagentUnset /\ RefineUnset /\ SummaryUnset
    /\ SearchUnset /\ UiUnset

\* the steps of the run whose call is answered as scripted
RefineAsScripted ==
    /\ RefineQueries
    /\ LET r == RefineGivenText(user_query, script.gen)
       IN  IF r.raised THEN failure' = r.exc ELSE refined' = r.value
StartBranchAsScripted(i) ==
    /\ StartBranch(i)
    /\ br'[tasks[i]] = AfterSearch(br[tasks[i]], tasks[i], script.http[tasks[i]])
FetchReturnAsScripted(i) ==
    /\ FetchReturn(i)
    /\ br'[tasks[i]] = AfterFetch(br[tasks[i]], tasks[i],
                                  _fetch_url_content(script.fetch[tasks[i]]))
GenerateReportAsScripted ==
    /\ GenerateReport
    /\ IF script.report.kind = "fault"
       THEN pc' = "failed"
       ELSE pc' = "save_report" /\ report' = script.report.text

ScriptUnchanged ==
    UNCHANGED <<sessionvars, subvars, refinevars, sumvars, script, searches, uivars>>

ScriptNext ==
    \/ CreateSession /\ ScriptUnchanged
    \/ RefineAsScripted /\ ScriptUnchanged
    \/ SaveQueries /\ ScriptUnchanged
    \/ Launch /\ ScriptUnchanged
    \/ \E i \in 1..Len(tasks) : StartBranchAsScripted(i) /\ ScriptUnchanged
    \/ \E i \in 1..Len(tasks) : FetchReturnAsScripted(i) /\ ScriptUnchanged
    \/ Join /\ ScriptUnchanged
    \/ SaveResult /\ ScriptUnchanged
    \/ GenerateReportAsScripted /\ ScriptUnchanged
    \/ SaveReport /\ ScriptUnchanged
    \/ Return /\ ScriptUnchanged

ScriptSpec == ScriptInit /\ [][ScriptNext]_allvars

(***************************************************************************)
(* The searches of a fan-out: the serper_search call of each subagent on   *)
(* the one thread of the event loop                                        *)
(***************************************************************************)
\* bodies of a response: text that is not JSON, a JSON array, a JSON object
\* without the organic key, and objects with organic hits
SearchHitLists ==
    {<< >>,
     <<Hit(1, "http://page", "Title")>>,
     <<Hit(1, "http://page", "Title"), Hit(2, "", "Title")>>}
ResponseBodies ==
    {[json |-> FALSE], [json |-> TRUE, kind |-> "array"],
     [json |-> TRUE, kind |-> "object", fields |-> << >>]}
        \cup {[json |-> TRUE, kind |-> "object", fields |-> [organic |-> h]] :
                 h \in SearchHitLists}
\* what requests.post meets: no answer, or an answer with a status and a body
SearchResponses ==
    {[transport |-> "timeout"]}
        \cup {[transport |-> "ok", status |-> st, body |-> b] :
                 st \in {200, 429}, b \in ResponseBodies}

\* lines 77-83: the try block up to organic_results.  requests.post raises
\* on a transport error, raise_for_status on a status of 400 and above,
\* response.json() on an undecodable body, and results.get on a body that
\* is no object
PostOutcome(response) ==
    IF response.transport # "ok"
    THEN [kind |-> "fault", msg |-> "Read timed out"]
    ELSE IF response.status >= 400
    THEN [kind |-> "fault", msg |-> "HTTPError"]
    ELSE IF ~response.body.json
    THEN [kind |-> "fault", msg |-> "JSONDecodeError"]
    ELSE IF response.body.kind # "object"
    THEN [kind |-> "fault", msg |-> "AttributeError"]
    ELSE [kind |-> "json",
          organic |-> IF "organic" \in DOMAIN response.body.fields
                      THEN response.body.fields.organic ELSE << >>]

\* a search that catches the faults of the request only
SearchOutcomeCatchingRequestFaults(query, response) ==
    LET http == PostOutcome(response)
    IN  IF http.kind = "fault" /\ http.msg \in {"JSONDecodeError", "AttributeError"}
        THEN Raised(http.msg)
        ELSE Returned(serper_search(query, http))

\* lines 77-98: except Exception catches every fault of the try block
SearchOutcome(query, response) ==
    Returned(serper_search(query, PostOutcome(response)))

SearchQuery(t) == <<"refined", t>>
NoSearch == [pc |-> "ready", response |-> NoValue, outcome |-> Pending]

SearchInit ==
    /\ searches = [t \in QueryTypes |-> NoSearch]
    /\ RunUnset /\ SessionsUnset /\ SubagentUnset /\ RefineUnset
    /\ SummaryUnset /\ ScriptUnset /\ UiUnset

\* no call of requests.post is in progress: the call is synchronous, so
\* while it lasts the thread of the event loop runs nothing else
ThreadFree == \A t \in QueryTypes : searches[t].pc # "posting"

\* line 299: the subagent of query type query_types[i] is started by the
\* event loop, after the ones created before it, and calls serper_search
SearchCall(i) ==
    /\ ThreadFree
    /\ searches[query_types[i]].pc = "ready"
    /\ \A j \in 1..(i - 1) : searches[query_types[j]].pc # "ready"
    /\ searches' = [searches EXCEPT ![query_types[i]].pc = "posting"]
    /\ UNCHANGED <<vars, sessionvars, subvars, refinevars, sumvars, script,
                   uivars>>

\* the provider answers, or the request times out, and serper_search ends
SearchAnswer(i) ==
    /\ searches[query_types[i]].pc = "posting"
    /\ \E response \in SearchResponses :
         LET o == SearchOutcome(SearchQuery(query_types[i]), response)
         IN  searches' = [searches EXCEPT ![query_types[i]] =
                             [pc |-> o.kind, response |-> response,
                              outcome |-> o]]
    /\ UNCHANGED <<vars, sessionvars, subvars, refinevars, sumvars, script,
                   uivars>>

SearchNext ==
    \/ \E i \in 1..Len(query_types) : SearchCall(i)
    \/ \E i \in 1..Len(query_types) : SearchAnswer(i)

SearchSpec == SearchInit /\ [][SearchNext]_allvars

(***************************************************************************)
(* The page (app.py): st.session_state under submissions and Clear History *)
(***************************************************************************)
\* submissions of a session, and status lines one run logs
MaxSubmits == 2
MaxLogs == 2

UserMessage == [role |-> "user"]
AssistantMessage == [role |-> "assistant"]
StatusLog(level) == [level |-> level]
Submitted == Len(SelectSeq(messages, LAMBDA m : m.role = "user"))
\* the dict research_with_orchestrator returns to the run started by the
\* n-th submission
ResearchResult(n) == [session_dir |-> SessionDirOf(n)]

\* app.py lines 66-78
init_session_state ==
    /\ messages = << >>
    /\ status_logs = << >>
    /\ current_research = None
    /\ research_complete = FALSE
    /\ ui_pc = "idle"
    /\ ui_result = None
    /\ RunUnset /\ SessionsUnset /\ SubagentUnset /\ RefineUnset
    /\ SummaryUnset /\ ScriptUnset
    /\ SearchUnset

UiOthersUnchanged ==
    UNCHANGED <<vars, sessionvars, subvars, refinevars, sumvars, script, searches>>

\* app.py lines 228-233
ClearHistory ==
    /\ ui_pc = "idle"
    /\ messages' = << >>
    /\ status_logs' = << >>
    /\ current_research' = None
    /\ research_complete' = FALSE
    /\ UNCHANGED <<ui_pc, ui_result>>
    /\ UiOthersUnchanged

\* a submission that keeps the flag of the run before it
SubmitKeepingFlag ==
    /\ ui_pc = "idle"
    /\ Submitted < MaxSubmits
    /\ messages' = Append(messages, UserMessage)
    /\ status_logs' = << >>
    /\ ui_pc' = "running"
    /\ UNCHANGED <<current_research, research_complete, ui_result>>
    /\ UiOthersUnchanged

\* app.py lines 254-269 and 121-133: Start Research with a key and a query;
\* run_research starts and awaits the orchestrator
Submit ==
    /\ ui_pc = "idle"
    /\ Submitted < MaxSubmits
    /\ messages' = Append(messages, UserMessage)
    /\ status_logs' = << >>
    /\ research_complete' = FALSE
    /\ ui_pc' = "running"
    /\ UNCHANGED <<current_research, ui_result>>
    /\ UiOthersUnchanged

\* app.py lines 81-87: the orchestrator reports progress through the callback
add_status_log ==
    /\ ui_pc = "running"
    /\ Len(status_logs) < MaxLogs
    /\ \E level \in {"info", "success", "warning", "error"} :
         status_logs' = Append(status_logs, StatusLog(level))
    /\ UNCHANGED <<messages, current_research, research_complete, ui_pc, ui_result>>
    /\ UiOthersUnchanged

\* app.py lines 133-135: the orchestrator returns and the result is stored
StoreResult ==
    /\ ui_pc = "running"
    /\ current_research' = ResearchResult(Submitted)
    /\ ui_pc' = "stored"
    /\ UNCHANGED <<messages, status_logs, research_complete, ui_result>>
    /\ UiOthersUnchanged

\* app.py lines 136-138
MarkComplete ==
    /\ ui_pc = "stored"
    /\ research_complete' = TRUE
    /\ ui_result' = current_research
    /\ ui_pc' = "returned"
    /\ UNCHANGED <<messages, status_logs, current_research>>
    /\ UiOthersUnchanged

\* app.py lines 140-143: the orchestrator raises and except Exception
\* turns the fault into a status line and None
ResearchFails ==
    /\ ui_pc = "running"
    /\ status_logs' = Append(status_logs, StatusLog("error"))
    /\ ui_result' = None
    /\ ui_pc' = "returned"
    /\ UNCHANGED <<messages, current_research, research_complete>>
    /\ UiOthersUnchanged

\* app.py lines 269-280: back in main, the completion message is added
\* when run_research returned a result, and the page reruns
AfterRun ==
    /\ ui_pc = "returned"
    /\ messages' = IF ui_result # None
                   THEN Append(messages, AssistantMessage) ELSE messages
    /\ ui_result' = None
    /\ ui_pc' = "idle"
    /\ UNCHANGED <<status_logs, current_research, research_complete>>
    /\ UiOthersUnchanged

UiNext ==
    \/ ClearHistory
    \/ Submit
    \/ add_status_log
    \/ StoreResult
    \/ MarkComplete
    \/ ResearchFails
    \/ AfterRun

UiSpec == init_session_state /\ [][UiNext]_allvars

(***************************************************************************)
(* Properties                                                              *)
(***************************************************************************)
\* the record of branch t after the step
br1(t) == br'[t]
\* the orchestrator is past the await of gather
PastJoin == pc \in {"save_results", "save_report", "return", "done"}
               \/ (pc = "failed" /\ failure = "ReportGenerationError")
\* position of a query type in the canonical order
Rank(query_type) ==
    CHOOSE i \in 1..Len(query_types) : query_types[i] = query_type
FileNames == {files[k].name : k \in 1..Len(files)}
HasError(r) == "error" \in DOMAIN r

\* C1: when the task of the branch for query type T raises, the results hold
\* a report whose query_type is T, whose error is the description of the
\* fault and whose articles are empty
C1_FaultReportCarriesItsType ==
    PastJoin =>
        \A i \in 1..Len(tasks) :
            br[tasks[i]].outcome.kind = "raised" =>
                \E k \in 1..Len(results) :
                    /\ results[k].query_type = tasks[i]
                    /\ HasError(results[k])
                    /\ results[k].error = br[tasks[i]].outcome.exc
                    /\ results[k].articles = << >>

\* C2: a run that returns normally returns exactly three branch reports, one
\* for each of primary, orthogonal_1 and orthogonal_2
C2_ThreeReportsOnePerType ==
    pc = "done" =>
        /\ Len(returned.results) = 3
        /\ \A t \in QueryTypes :
             Cardinality({k \in 1..Len(returned.results) :
                             returned.results[k].query_type = t}) = 1

\* C3: the branch reports of the results, and the summaries handed to report
\* synthesis, appear in the canonical order primary, orthogonal_1,
\* orthogonal_2
C3_CanonicalOrder ==
    /\ PastJoin =>
         \A k, l \in 1..Len(results) :
             k < l => Rank(results[k].query_type) < Rank(results[l].query_type)
    /\ summary # NoValue =>
         \A k, l \in 1..Len(summary.results_summary) :
             k < l => Rank(summary.results_summary[k].query_type)
                         < Rank(summary.results_summary[l].query_type)

\* C4: nothing of the branches is persisted, no synthesis is started and the
\* orchestrator does not go on until every launched branch has run its search
\* and has returned or raised; no branch is left waiting or in a fetch
BeforeJoin == {"create_session", "refine", "save_queries", "launch", "gather"}
C4_FullJoin ==
    (\/ pc \notin BeforeJoin
     \/ summary # NoValue
     \/ \E t \in QueryTypes : <<"research_results", t>> \in FileNames)
        => \A i \in 1..Len(tasks) :
               /\ br[tasks[i]].pc \in {"done", "raised"}
               /\ br[tasks[i]].searched # "no"
               /\ br[tasks[i]].outcome.kind \in {"returned", "raised"}
\* a branch raised and a sibling still fetched both of its hits
C4_Witness ==
    /\ pc = "save_results"
    /\ \E i, j \in 1..Len(tasks) :
         /\ br[tasks[i]].pc = "raised"
         /\ br[tasks[j]].pc = "done"
         /\ Len(br[tasks[j]].fetched) = 2

\* C5: query expansion never raises, whatever text the generator returns
C5_RefineNeverRaises ==
    failure \notin {"KeyError", "TypeError: indices must be integers"}

\* C6: the QuerySet returned by query expansion has the four fields original,
\* primary, orthogonal_1 and orthogonal_2, all non-empty
C6_FourFieldsNonEmpty ==
    refined # NoValue =>
        \A k \in QueryKeys : k \in DOMAIN refined /\ refined[k] # << >>

\* C7: a branch whose search failed or returned no hit has a report with no
\* article, a non-empty error, its own query_type and query, and made no
\* fetch; the report is the one the results carry
C7_SearchFailureReport ==
    \A i \in 1..Len(tasks) :
        br[tasks[i]].searched \in {"fault", "empty"} =>
            /\ br[tasks[i]].pc = "done"
            /\ br[tasks[i]].fetched = << >>
            /\ LET r == br[tasks[i]].outcome.value IN
                 /\ r.articles = << >>
                 /\ HasError(r) /\ r.error # ""
                 /\ r.query_type = tasks[i]
                 /\ r.query = refined[tasks[i]]
                 /\ PastJoin => results[i] = r
C7_Witness ==
    /\ PastJoin
    /\ \E i, j \in 1..Len(tasks) :
         /\ br[tasks[i]].searched = "fault"
         /\ br[tasks[j]].searched = "empty"
         /\ results[j].error = "No results found"

\* C8: when the fetch of a hit yields nothing, the branch still appends an
\* article for that hit with scraped false, content_length 0 and the snippet
\* of the hit as content_preview, a fetch that yields text gives scraped
\* true, and in both cases the branch goes on to its next hit with a link
C8_FetchFailureNotFatal ==
    [][\A t \in QueryTypes :
         (br[t].pc = "fetching" /\ br1(t) # br[t]) =>
            LET hits == br[t].results_to_scrape
                hit == hits[br[t].idx]
                next == NextLinked(hits, br[t].idx + 1)
                b1 == br1(t)
            IN  hit.title # "null" =>
                  /\ b1.pc \in {"fetching", "done"}
                  /\ Len(b1.fetched) = Len(br[t].fetched) + 1
                  /\ Len(b1.articles) = Len(br[t].articles) + 1
                  /\ SubSeq(b1.articles, 1, Len(br[t].articles)) = br[t].articles
                  /\ LET a == b1.articles[Len(b1.articles)]
                         content == b1.fetched[Len(b1.fetched)]
                     IN  /\ a.position = br[t].idx
                         /\ a.url = hit.link
                         /\ a.snippet = hit.snippet
                         /\ a.scraped = (content # None)
                         /\ content = None =>
                              /\ a.content_length = 0
                              /\ a.content_preview = hit.snippet
                  /\ next <= Len(hits) => b1.pc = "fetching" /\ b1.idx = next
                  /\ next > Len(hits) =>
                       /\ b1.pc = "done"
                       /\ b1.outcome.value.articles = b1.articles
                       /\ ~HasError(b1.outcome.value)]_vars
\* a report whose first article was not fetched and whose second was
C8_Witness ==
    \E t \in QueryTypes :
        /\ br[t].pc = "done"
        /\ Len(br[t].outcome.value.articles) = 2
        /\ ~br[t].outcome.value.articles[1].scraped
        /\ br[t].outcome.value.articles[1].content_preview
              = Text(<<"snippet", 1>>, SnippetLen)
        /\ br[t].outcome.value.articles[2].scraped

\* C9: the report of a branch depends on that branch alone: a step of one
\* branch leaves the records of its siblings as they were and takes the branch
\* to a record that its own record and its own search or fetch response
\* determine, and the join computes each entry of the results from the
\* outcome of its own task
OwnStep(b, b1, t) ==
    \/ /\ b.pc = "ready"
       /\ \E http \in HttpOutcomes : b1 = AfterSearch(b, t, http)
    \/ /\ b.pc = "fetching"
       /\ \E f \in FetchOutcomes : b1 = AfterFetch(b, t, _fetch_url_content(f))
C9_BranchIndependence ==
    [][/\ (pc = "gather" /\ pc' = "gather") =>
            \E t \in QueryTypes :
                /\ \A u \in QueryTypes \ {t} : br1(u) = br[u]
                /\ OwnStep(br[t], br1(t), t)
       /\ (pc = "gather" /\ pc' = "save_results") =>
            /\ br' = br
            /\ Len(results') = Len(tasks)
            /\ \A i \in 1..Len(tasks) :
                 results'[i] = ProcessResult(i, br[tasks[i]].outcome)]_vars
\* one branch failed in its search, one raised, and the third reports two
\* fetched articles
C9_Witness ==
    /\ PastJoin
    /\ Len(tasks) = 3
    /\ \E i, j, k \in 1..3 :
         /\ br[tasks[i]].searched = "fault"
         /\ br[tasks[j]].pc = "raised"
         /\ ~HasError(results[k])
         /\ Len(results[k].articles) = 2
         /\ results[k].articles[2].scraped

\* C10: the run never moves backward through Created, QueriesExpanded,
\* BranchesRunning, BranchesComplete, ReportSynthesized, Done; its steps occur
\* in the order session created, queries expanded, queries.json saved,
\* branches launched, branches resolved, reports saved, report synthesized,
\* final_report.md saved, returned, each once (one save per report); no
\* branch starts before queries.json is written and no report is written
\* before all branches have resolved
StateOf(p) ==
    CASE p \in {"create_session", "refine"} -> "Created"
      [] p \in {"save_queries", "launch"} -> "QueriesExpanded"
      [] p = "gather" -> "BranchesRunning"
      [] p = "save_results" -> "BranchesComplete"
      [] p \in {"save_report", "return"} -> "ReportSynthesized"
      [] p = "done" -> "Done"
      [] p = "failed" -> "Failed"
States == <<"Created", "QueriesExpanded", "BranchesRunning", "BranchesComplete",
            "ReportSynthesized", "Done", "Failed">>
StateRank(st) == CHOOSE i \in 1..Len(States) : States[i] = st
StepOrder == <<"session_created", "queries_expanded", "queries_saved",
               "branches_launched", "branches_resolved", "result_saved",
               "report_synthesized", "report_saved", "returned">>
StepRank(step) == CHOOSE i \in 1..Len(StepOrder) : StepOrder[i] = step
StepsOf(step) == {k \in 1..Len(steps) : steps[k] = step}
IsPrefix(a, b) == Len(a) <= Len(b) /\ SubSeq(b, 1, Len(a)) = a
C10_StepsInOrder ==
    /\ \A k, l \in 1..Len(steps) :
         k < l => /\ StepRank(steps[k]) <= StepRank(steps[l])
                  /\ steps[k] = steps[l] => steps[k] = "result_saved"
    /\ Cardinality(StepsOf("result_saved")) = saved
    /\ saved <= Len(results)
    /\ StepsOf("session_created") # {} <=> session_dir # NoValue
    /\ StepsOf("queries_expanded") # {} <=> refined # NoValue
    /\ StepsOf("queries_saved") # {} <=> <<"queries.json">> \in FileNames
    /\ StepsOf("branches_launched") # {} <=>
           StateRank(StateOf(pc)) >= 3 /\ refined # NoValue
    /\ StepsOf("report_synthesized") # {} <=> report # NoValue
    /\ StepsOf("report_saved") # {} <=> <<"final_report.md">> \in FileNames
    /\ StepsOf("returned") # {} <=> returned # NoValue
    /\ (\E t \in QueryTypes : br[t].pc # "absent") =>
           <<"queries.json">> \in FileNames
    /\ (\E t \in QueryTypes : <<"research_results", t>> \in FileNames) =>
           AllResolved /\ StepsOf("branches_resolved") # {}
    /\ pc = "done" =>
           /\ saved = Len(results)
           /\ \A st \in {StepOrder[i] : i \in 1..Len(StepOrder)} \ {"result_saved"} :
                Cardinality(StepsOf(st)) = 1
C10_NoBackwardTransition ==
    /\ []C10_StepsInOrder
    /\ [][/\ StateRank(StateOf(pc')) >= StateRank(StateOf(pc))
          /\ IsPrefix(steps, steps')
          /\ IsPrefix(files, files')]_vars
\* a finished run that saved three reports, one of them of a failed branch
C10_Witness ==
    /\ pc = "done"
    /\ Len(steps) = 11
    /\ \E k \in 1..Len(results) : HasError(results[k])

\* the writes of the run up to the report step: queries.json, then one file
\* per branch report, in the order of research_results
FilesBeforeReport ==
    <<[dir |-> session_dir, name |-> <<"queries.json">>, data |-> refined]>>
        \o [k \in 1..Len(results) |->
              [dir |-> session_dir,
               name |-> <<"research_results", results[k].query_type>>,
               data |-> results[k]]]
FailedAtReport == pc = "failed" /\ failure = "ReportGenerationError"

\* C11: when report generation fails the failure propagates: the run returns
\* no result, final_report.md is never written, and queries.json and the
\* branch report files stay as they were written
C11_ReportFailurePropagates ==
    /\ [](FailedAtReport =>
            /\ returned = NoValue
            /\ report = NoValue
            /\ <<"final_report.md">> \notin FileNames
            /\ files = FilesBeforeReport)
    /\ [][(FailedAtReport \/ FailedAtReport') =>
            /\ files' = files
            /\ returned' = NoValue]_vars
\* a run that failed in report generation after saving three branch reports
C11_Witness ==
    /\ FailedAtReport
    /\ Len(results) = 3
    /\ Len(files) = 4

\* the report generator answered
ReportSynthesized == pc \in {"save_report", "return", "done"}
FailedResults == {k \in 1..Len(results) : HasError(results[k])}

\* C12: partial failure is a normal outcome: when some branch failed and the
\* generation calls succeeded, the report is synthesized exactly once from
\* three summaries, one per query type, the failed ones with no articles,
\* and the finished run returns a complete result
C12_PartialFailureIsNormal ==
    (ReportSynthesized /\ FailedResults # {}) =>
        /\ Cardinality(StepsOf("report_synthesized")) = 1
        /\ Len(summary.results_summary) = Len(query_types)
        /\ \A i \in 1..Len(query_types) :
              summary.results_summary[i].query_type = query_types[i]
        /\ \A k \in FailedResults : summary.results_summary[k].articles = << >>
        /\ pc = "done" =>
              /\ returned.queries = refined
              /\ returned.results = results
              /\ returned.report = report

\* C13: within one run every artifact is written once under a name of its
\* own: no two writes of the run target the same file name
C13_UniqueFileNames ==
    \A k, l \in 1..Len(files) : k # l => files[k].name # files[l].name

\* C14: every run gets a session directory of its own: two distinct runs,
\* whenever they start and on whichever instances, never receive the same
\* directory
C14_UniqueSessionDirectory ==
    \A r1, r2 \in Runs :
        (r1 # r2 /\ sessions[r1] # NoValue /\ sessions[r2] # NoValue) =>
            sessions[r1].dir # sessions[r2].dir

\* the hits the provider returned to the subagent, and the ones it considers
Organic == IF sub_http # NoValue /\ sub_http.kind = "json"
           THEN sub_http.organic ELSE << >>
TopRanks == 1..Min(Len(Organic), num_results)
LinkedTopRanks == {r \in TopRanks : Organic[r].link # ""}
SubReturned == sub.outcome.kind = "returned"

\* C15: the report a subagent returns carries the query type it was given
\* and never more than num_results articles, also when the provider
\* returned more hits than that
C15_TypeAndArticleLimit ==
    /\ Len(sub.articles) <= num_results
    /\ SubReturned =>
          /\ sub.outcome.value.query_type = sub_type
          /\ Len(sub.outcome.value.articles) <= num_results
\* a returned report with num_results articles out of more hits
C15_Witness ==
    /\ SubReturned
    /\ Len(Organic) > num_results
    /\ Len(sub.outcome.value.articles) = num_results
    /\ sub.outcome.value.num_articles = num_results

FetchRanks == {sub_events[k].rank : k \in {i \in 1..Len(sub_events) : i % 2 = 1}}
\* C16: within a branch the fetches are sequential and in rank order, only
\* the top num_results hits are considered, a hit without a link gets no
\* fetch and no article, and the articles are in rank order with position
\* equal to the 1-based rank of their hit
C16_SequentialRankOrder ==
    /\ \A k \in 1..Len(sub_events) :
          IF k % 2 = 1
          THEN /\ sub_events[k].ev = "fetch"
               /\ k > 2 => sub_events[k].rank > sub_events[k - 2].rank
          ELSE sub_events[k] = FetchEnded(sub_events[k - 1].rank)
    /\ FetchRanks \subseteq LinkedTopRanks
    /\ \A r \in FetchRanks : \A q \in LinkedTopRanks : q < r => q \in FetchRanks
    /\ sub.pc = "fetching" <=> Len(sub_events) % 2 = 1
    /\ sub.pc # "raised" =>
          /\ Len(sub.articles) = Len(sub_events) \div 2
          /\ \A j \in 1..Len(sub.articles) :
                LET a == sub.articles[j]
                IN  /\ a.position = sub_events[2 * j].rank
                    /\ a.url = Organic[a.position].link
                    /\ a.title = Organic[a.position].title
                    /\ a.snippet = Organic[a.position].snippet
                    /\ j > 1 => a.position > sub.articles[j - 1].position
    /\ (SubReturned /\ ~SearchFailed(serper_search(sub.query, sub_http))) =>
          /\ FetchRanks = LinkedTopRanks
          /\ sub.outcome.value.articles = sub.articles
\* a returned report whose only article is hit 2, hit 1 having no link and
\* hit 3 lying beyond num_results
C16_Witness ==
    /\ SubReturned
    /\ Len(Organic) = 3
    /\ Organic[1].link = "" /\ Organic[3].link # ""
    /\ Len(sub.outcome.value.articles) = 1
    /\ sub.outcome.value.articles[1].position = 2
    /\ sub_events = <<FetchStarted(2), FetchEnded(2)>>

\* C19: the content_preview of fetched content is the content cut to
\* PreviewChars characters, with the ellipsis appended when and only when
\* the content was longer than that; content_length is its full length
C19_EllipsisOnlyWhenTruncated ==
    sub.pc # "raised" =>
        \A j \in 1..Len(sub.articles) :
            LET content == sub.fetched[j]
            IN  Truthy(content) =>
                  /\ sub.articles[j].content_preview =
                        IF StrLen(content) > PreviewChars
                        THEN AddEllipsis(Slice(content, PreviewChars))
                        ELSE content
                  /\ sub.articles[j].content_length = StrLen(content)

\* a text that is not JSON: it holds no JSON value at all, or it begins
\* with prose
NotJson(text) ==
    \/ \A i \in 1..Len(text) : text[i].t # "value"
    \/ (Strip(text) # << >> /\ Head(Strip(text)) = PROSE)

\* C17: when the generator answers with text that is not JSON the result is
\* the fallback: original and primary are the user query, orthogonal_1 is
\* the query followed by "latest research", orthogonal_2 the query
\* followed by "expert analysis", and reasoning has exactly the three keys
\* with their fixed texts
C17_DeterministicFallback ==
    (refine_out # NoValue /\ NotJson(response_text)) =>
        refine_out =
            [raised |-> FALSE,
             value |-> [original |-> refine_query,
                        primary |-> refine_query,
                        orthogonal_1 |-> refine_query \o <<"latest research">>,
                        orthogonal_2 |-> refine_query \o <<"expert analysis">>,
                        reasoning |->
                            [primary |-> "Using original query",
                             orthogonal_1 |-> "Latest research angle",
                             orthogonal_2 |-> "Expert analysis angle"]]]
\* the fallback made from prose inside a code fence
C17_Witness ==
    /\ response_text = <<FENCE, WS, PROSE, WS, FENCE, WS>>
    /\ refine_out # NoValue
    /\ ~refine_out.raised
    /\ refine_out.value.orthogonal_2 = refine_query \o <<"expert analysis">>

\* C20: what is handed to the report generator holds at most 5 articles of
\* a branch report, the first 5 in rank order, and each content preview
\* has at most 300 characters, however many articles the report has
C20_SummaryIsBounded ==
    sum_summary # NoValue =>
        /\ Len(sum_summary.articles) <= 5
        /\ Len(sum_summary.articles) <= Len(sum_result.articles)
        /\ Len(sum_result.articles) >= 5 => Len(sum_summary.articles) = 5
        /\ Len(sum_result.articles) < 5 =>
              Len(sum_summary.articles) = Len(sum_result.articles)
        /\ \A j \in 1..Len(sum_summary.articles) :
              LET a == sum_summary.articles[j]
                  full == sum_result.articles[j]
              IN  /\ a.title = full.title
                  /\ a.url = full.url
                  /\ a.snippet = full.snippet
                  /\ full.position = j
                  /\ StrLen(a.content_preview) <= 300
                  /\ a.content_preview.of = full.content_preview.of
                  /\ StrLen(full.content_preview) <= 300 =>
                        a.content_preview = full.content_preview
\* the summary of a report with more than 5 articles whose previews are
\* longer than 300 characters
C20_Witness ==
    /\ sum_summary # NoValue
    /\ Len(sum_result.articles) > 5
    /\ Len(sum_summary.articles) = 5
    /\ StrLen(sum_result.articles[5].content_preview) > 300
    /\ StrLen(sum_summary.articles[5].content_preview) = 300

\* a run under the script with every call answered at once, one subagent
\* after the other
RECURSIVE RunToEnd(_, _, _)
RunToEnd(b, query_type, content) ==
    IF b.pc = "fetching"
    THEN RunToEnd(AfterFetch(b, query_type, content), query_type, content)
    ELSE b
ScriptedQueries == RefineGivenText(user_query, script.gen).value
ScriptedTasks == TasksFrom(ScriptedQueries, 1)
ScriptedBranch(t) ==
    RunToEnd(AfterSearch(NewBranch(ScriptedQueries[t]), t, script.http[t]),
             t, _fetch_url_content(script.fetch[t]))
ScriptedResults ==
    ProcessResults([i \in 1..Len(ScriptedTasks) |->
                       ScriptedBranch(ScriptedTasks[i]).outcome])

\* C18: the result of a run is decided by the responses alone: under every
\* interleaving of the subagents a run returns the queries, the results and
\* the report that the same responses give when the subagents run one after
\* the other, so two runs given identical responses return the same
C18_ScheduleIndependence ==
    /\ PastJoin => results = ScriptedResults
    /\ pc = "done" =>
          /\ returned.queries = ScriptedQueries
          /\ returned.results = ScriptedResults
          /\ returned.report = script.report.text
\* a finished run in which two subagents fetched pages and one raised
C18_Witness ==
    /\ pc = "done"
    /\ Len(returned.results) = 3
    /\ \E k, l \in 1..3 :
          /\ k # l
          /\ ~HasError(returned.results[k]) /\ ~HasError(returned.results[l])
          /\ Len(returned.results[k].articles) = 2
          /\ Len(returned.results[l].articles) >= 1
    /\ \E k \in 1..3 : HasError(returned.results[k])

SearchEnded(t) == searches[t].pc \in {"returned", "raised"}
RequestFailed(response) ==
    \/ response.transport # "ok"
    \/ response.status < 200 \/ response.status >= 300
    \/ ~response.body.json
C22_SearchesCanOverlap ==
    \A i, j \in 1..Len(query_types) :
        (/\ searches[query_types[i]].pc = "posting"
         /\ searches[query_types[j]].pc = "ready"
         /\ \A k \in 1..(j - 1) : searches[query_types[k]].pc # "ready") =>
            ENABLED SearchCall(j)

\* every call made so far was made once
SingleAttemptsSoFar ==
    /\ \A t \in QueryTypes :
          /\ br[t].pc \in {"absent", "ready"} <=> br[t].searched = "no"
          /\ br[t].searched \in {"fault", "empty"} =>
                /\ br[t].pc = "done"
                /\ HasError(br[t].outcome.value)
                /\ br[t].fetched = << >>
          /\ Len(br[t].fetched) = Len(br[t].articles)
          /\ \A j \in 2..Len(br[t].articles) :
                br[t].articles[j].position > br[t].articles[j - 1].position
          /\ br[t].pc = "fetching" =>
                \A j \in 1..Len(br[t].articles) :
                    br[t].articles[j].position < br[t].idx
    /\ Cardinality(StepsOf("queries_expanded")) <= 1
    /\ Cardinality(StepsOf("report_synthesized")) <= 1
    /\ pc = "done" =>
          /\ Cardinality(StepsOf("queries_expanded")) = 1
          /\ Cardinality(StepsOf("report_synthesized")) = 1
\* C23: nothing is retried: a launched subagent searches exactly once and a
\* failed or empty search ends it, a hit is fetched at most once, and the
\* expansion and the report are each generated once
C23_SingleAttempts ==
    /\ []SingleAttemptsSoFar
    /\ [][\A t \in QueryTypes :
            /\ br[t].searched # "no" => br1(t).searched = br[t].searched
            /\ br[t].pc \in {"done", "raised"} => br1(t) = br[t]
            /\ Len(br1(t).fetched) > Len(br[t].fetched) =>
                  /\ br[t].pc = "fetching"
                  /\ Len(br1(t).fetched) = Len(br[t].fetched) + 1]_vars
\* a finished run: one search failed, one found nothing, one subagent
\* fetched two hits
C23_Witness ==
    /\ pc = "done"
    /\ \E t, u, v \in QueryTypes :
          /\ br[t].searched = "fault"
          /\ br[u].searched = "empty"
          /\ br[v].searched = "hits" /\ Len(br[v].fetched) = 2

\* the branch reports of the run that were written to the session directory
SavedReports ==
    {files[k].data : k \in {i \in 1..Len(files) :
                               files[i].name[1] = "research_results"}}
\* C24: every branch report, in the returned results and in the saved
\* research_results files, carries query_type, query and articles, whether
\* it comes from a successful subagent, from a failed or empty search, or
\* from a fault converted after the join
C24_ReportFields ==
    /\ \A r \in SavedReports : {"query_type", "query", "articles"} \subseteq DOMAIN r
    /\ pc = "done" =>
          \A k \in 1..Len(returned.results) :
              {"query_type", "query", "articles"} \subseteq DOMAIN returned.results[k]

\* the subagent behind entry k of the results failed: its search failed or
\* found nothing, or it raised
BranchFailed(k) ==
    \/ br[tasks[k]].searched \in {"fault", "empty"}
    \/ br[tasks[k]].pc = "raised"
\* C26 as claimed: in a returned result a report has an error exactly when
\* its subagent failed, and then no articles; a report without an error
\* has at least one article and num_articles is the number of its articles
C26_ErrorIffNoArticles ==
    pc = "done" =>
        \A k \in 1..Len(returned.results) :
            LET r == returned.results[k]
            IN  /\ HasError(r) <=> BranchFailed(k)
                /\ HasError(r) => r.articles = << >>
                /\ ~HasError(r) =>
                      /\ Len(r.articles) >= 1
                      /\ r.num_articles = Len(r.articles)
\* C26 as amended: in a returned result a report has an error exactly when
\* its subagent failed, and then no articles; a report without an error
\* has num_articles equal to the number of its articles, one per hit with
\* a link among the hits considered, which can be none
C26_ErrorIffBranchFailed ==
    pc = "done" =>
        \A k \in 1..Len(returned.results) :
            LET r == returned.results[k]
            IN  /\ HasError(r) <=> BranchFailed(k)
                /\ HasError(r) => r.articles = << >>
                /\ ~HasError(r) =>
                      /\ br[tasks[k]].searched = "hits"
                      /\ r.num_articles = Len(r.articles)
                      /\ r.articles = br[tasks[k]].articles
\* a returned result with a failed report and a report that has neither
\* an error nor an article
C26_Witness ==
    /\ pc = "done"
    /\ \E k, l \in 1..Len(returned.results) :
          /\ HasError(returned.results[k])
          /\ br[tasks[k]].searched = "empty"
          /\ ~HasError(returned.results[l])
          /\ returned.results[l].articles = << >>
          /\ returned.results[l].num_articles = 0

\* C25: every artifact of a run is written into the session directory of
\* that run, the one it returns as session_dir, and the session location
\* of a run does not change while it runs, also when two runs on one
\* orchestrator instance interleave
C25_ArtifactsInOwnSession ==
    \A r \in Runs :
        sessions[r] # NoValue =>
            /\ \A k \in 1..Len(sessions[r].writes) :
                  sessions[r].writes[k].dir = sessions[r].dir
            /\ Len(sessions[r].writes) <= Len(SavedByRun) =>
                  self_session_dir[sessions[r].instance] = sessions[r].dir

SessionStateCoherent ==
    /\ research_complete => current_research # None
    /\ ui_pc \in {"running", "stored"} => ~research_complete
    /\ ui_pc = "returned" =>
          IF ui_result = None
          THEN /\ ~research_complete
               /\ status_logs # << >>
               /\ status_logs[Len(status_logs)].level = "error"
          ELSE /\ research_complete
               /\ current_research = ui_result
               /\ ui_result = ResearchResult(Submitted)
    /\ Len(SelectSeq(messages, LAMBDA m : m.role = "assistant")) <= Submitted
\* C27: research_complete is true only while current_research holds a
\* result, after any sequence of runs and Clear History actions:
\* run_research resets status_logs and research_complete at its start,
\* stores the result and then sets research_complete on success, and on a
\* failure of the orchestrator returns None, leaves research_complete
\* false and logs an error line, after which no completion message is added
C27_CompleteOnlyWithResult ==
    /\ []SessionStateCoherent
    /\ [][/\ (ui_pc = "idle" /\ ui_pc' = "running") =>
               (status_logs' = << >> /\ ~research_complete')
          /\ (ui_pc = "returned" /\ ui_result = None) => messages' = messages
          /\ (ui_pc = "returned" /\ ui_result # None) =>
               messages' = Append(messages, AssistantMessage)
          /\ research_complete' /\ ~research_complete =>
               current_research # None /\ current_research' = current_research]_uivars
\* a second run failed after a first one succeeded: the result of the
\* first is still held and the flag is down
C27_Witness ==
    /\ ui_pc = "returned"
    /\ ui_result = None
    /\ Submitted = 2
    /\ current_research = ResearchResult(1)
    /\ ~research_complete
    /\ Len(messages) = 3

Terminated == pc \in {"done", "failed"}
\* a suspended branch can resume whatever its siblings are doing, and a
\* fan-out whose branches have all resolved can be joined
NothingWaits ==
    pc = "gather" =>
      /\ \A i \in 1..Len(tasks) :
            br[tasks[i]].pc = "fetching" => ENABLED FetchReturn(i)
      /\ (\A i \in 1..Len(tasks) : br[tasks[i]].pc \in {"done", "raised"})
            => ENABLED Join
\* C28: when every generation, search and fetch call eventually returns or
\* raises, every run eventually terminates, returning a result or raising
\* to its caller; no branch waits on a sibling, and the join is passed
\* once all branches have resolved
C28_RunTerminates ==
    /\ <>Terminated
    /\ []NothingWaits
    /\ (/\ pc = "gather"
        /\ \A i \in 1..Len(tasks) : br[tasks[i]].pc \in {"done", "raised"})
          ~> (pc # "gather")
\* a run that returned its result although one branch raised while a
\* sibling scraped an article
C28_Witness ==
    /\ pc = "done"
    /\ returned # NoValue
    /\ \E t \in QueryTypes : br[t].pc = "raised"
    /\ \E t \in QueryTypes : br[t].pc = "done" /\ br[t].articles # << >>

====
